---- MODULE Spec2Model ----
(***************************************************************************)
(* PlatformIO MCP server: the operation handlers of src/tools/build.ts and *)
(* src/tools/upload.ts and the tool-call dispatcher of src/index.ts.       *)
(*                                                                         *)
(* A JavaScript string is a sequence of tokens (characters, or words that  *)
(* the code never looks inside); a template string is a concatenation.     *)
(* A string[] is a sequence of such strings.                               *)
(***************************************************************************)
EXTENDS Integers, Sequences, FiniteSets, TLC

\* Longest environment name drawn as an input.
MaxIdLen == 2

\* Characters environment names are drawn from: two letters that differ in
\* case only, and a shell metacharacter.
IdChars == {"e", "E", ";"}

\* The value of an optional string parameter that was not given.
undefined == <<"undefined">>

\* The value of an optional string[] field that is not set.
undefinedList == <<undefined>>

\* JavaScript truthiness of an optional string: undefined and '' are falsy.
Truthy(s) == s # undefined /\ s # <<>>

StringsUpTo(chars, n) == UNION {[1..k -> chars] : k \in 0..n}

----------------------------------------------------------------------------
(* Errors.  An error object has the name of its class, a message and the   *)
(* details object given to its constructor.                                *)

NoContext == [none |-> undefined]

NewError(name, message, context) ==
    [name |-> name, message |-> message, context |-> context]

BuildError(message, context) == NewError("BuildError", message, context)

UploadError(message, context) == NewError("UploadError", message, context)

\* error instanceof PlatformIOError: the base class and its subclasses.
PlatformIOErrorClasses ==
    {"PlatformIOError", "BuildError", "UploadError", "InvalidPathError",
     "PlatformIONotInstalledError", "CommandTimeoutError"}

InstanceOfPlatformIOError(error) == error.name \in PlatformIOErrorClasses

InstanceOfBuildError(error) == error.name = "BuildError"

\* `${error}` of an Error object: "<name>: <message>".
ErrorToString(error) == <<error.name, ": ">> \o error.message

\* The kind the classifier gives an error: the kind of its class, and
\* OperationFailed for every class without a kind of its own.
ErrorKind(error) ==
    CASE error.name = "InvalidPathError" -> "InvalidPath"
      [] error.name = "InvalidIdentifierError" -> "InvalidIdentifier"
      [] error.name = "InvalidPortError" -> "InvalidPort"
      [] error.name = "PlatformIONotInstalledError" -> "ToolNotInstalled"
      [] error.name = "CommandTimeoutError" -> "Timeout"
      [] OTHER -> "OperationFailed"

----------------------------------------------------------------------------
(* Input validator.                                                        *)

\* A path is the sequence of its segments below the configured root.
ShellMetaSegments == {"a;b"}

RECURSIVE NormalizeFrom(_, _)
\* Resolves "." and ".." left to right; not ok when ".." leaves the root.
NormalizeFrom(done, rest) ==
    IF rest = <<>> THEN [ok |-> TRUE, path |-> done]
    ELSE IF Head(rest) = "." THEN NormalizeFrom(done, Tail(rest))
    ELSE IF Head(rest) = ".."
         THEN IF done = <<>> THEN [ok |-> FALSE, path |-> <<>>]
              ELSE NormalizeFrom(SubSeq(done, 1, Len(done) - 1), Tail(rest))
    ELSE NormalizeFrom(Append(done, Head(rest)), Tail(rest))

validateProjectPath(projectDir) ==
    LET n == NormalizeFrom(<<>>, projectDir)
        rejected == \/ projectDir = <<>>
                    \/ \E i \in 1..Len(projectDir) : projectDir[i] \in ShellMetaSegments
                    \/ ~n.ok
    IN IF rejected
       THEN [ok |-> FALSE, path |-> <<>>,
             error |-> NewError("InvalidPathError",
                                <<"Invalid project path: ">> \o projectDir,
                                [projectDir |-> projectDir])]
       ELSE [ok |-> TRUE, path |-> n.path, error |-> NoContext]

\* The identifier character class: alphanumeric, hyphen, underscore, dot.
IdentifierChars == {"e", "E", "0", "-", "_", "."}

validateEnvironmentName(environment) ==
    /\ Len(environment) >= 1
    /\ \A i \in 1..Len(environment) : environment[i] \in IdentifierChars

\* A port is a device-file shape or a COM shape followed by one name token.
PortPrefixes == {"/dev/tty", "COM"}
PortNames == {"USB0", "3"}

validateSerialPort(port) ==
    /\ Len(port) = 2
    /\ port[1] \in PortPrefixes
    /\ port[2] \in PortNames

----------------------------------------------------------------------------
(* Process executor: platformioExecutor.execute resolves with a            *)
(* CommandResult or rejects with an error.                                 *)

Stdouts ==
    { <<>>, <<"ok">>,
      <<" ", "upload", "\n", "Environment", " ", "e", "\n", "a", ":", "b", "\n",
        "\t", "\n", "clean", " ">> }

Stderrs == { <<>>, <<"Error: ", "could not open port", "\n">> }

ExitCodes == {0, 1}

CommandResults ==
    [type : {"outcome"}, exitCode : ExitCodes, stdout : Stdouts, stderr : Stderrs]

SpawnFailed ==
    NewError("PlatformIONotInstalledError", <<"PlatformIO CLI is not installed">>, NoContext)

TimedOut ==
    NewError("CommandTimeoutError", <<"Command timed out">>, NoContext)

OtherFailure == NewError("Error", <<"spawn EACCES">>, NoContext)

ExecutionFailures ==
    {[type |-> "failure", error |-> e] : e \in {SpawnFailed, TimedOut, OtherFailure}}

ExecutorResults == CommandResults \cup ExecutionFailures

----------------------------------------------------------------------------
(* Output interpreter.                                                     *)

RECURSIVE SplitFrom(_, _, _)
\* s.split('\n')
SplitFrom(s, cur, acc) ==
    IF s = <<>> THEN Append(acc, cur)
    ELSE IF Head(s) = "\n" THEN SplitFrom(Tail(s), <<>>, Append(acc, cur))
    ELSE SplitFrom(Tail(s), Append(cur, Head(s)), acc)

Split(s) == SplitFrom(s, <<>>, <<>>)

\* The lines whose flag in keep is set, in source order.
SelectLines(lines, keep) ==
    LET F[i \in 0..Len(lines)] ==
            IF i = 0 THEN <<>>
            ELSE IF keep[i] THEN Append(F[i - 1], lines[i]) ELSE F[i - 1]
    IN F[Len(lines)]

Dedup(lines) ==
    LET F[i \in 0..Len(lines)] ==
            IF i = 0 THEN <<>>
            ELSE IF \E j \in 1..(i - 1) : lines[j] = lines[i]
                 THEN F[i - 1] ELSE Append(F[i - 1], lines[i])
    IN F[Len(lines)]

KnownSignatures ==
    {"command not found", "unrecognized option", "permission denied",
     "could not open port", "is busy"}

HasSignature(line) == \E i \in 1..Len(line) : line[i] \in KnownSignatures

parseStderrErrors(stderr) ==
    LET lines == Split(stderr)
        matched == Dedup(SelectLines(lines,
                                     [i \in 1..Len(lines) |-> HasSignature(lines[i])]))
        nonEmpty == SelectLines(lines, [i \in 1..Len(lines) |-> lines[i] # <<>>])
    IN IF matched # <<>> THEN matched
       ELSE IF nonEmpty # <<>> THEN <<nonEmpty[Len(nonEmpty)]>>
       ELSE <<>>

----------------------------------------------------------------------------
(* What a handler does up to its await, and what it does after it.         *)

\* One run of a validator by a handler, and its verdict.
Check(field, value, accepted) ==
    [field |-> field, value |-> value, accepted |-> accepted]

\* The handler throws before calling the executor.
ThrowsEarly(checks, error) ==
    [kind |-> "throw", checks |-> checks, error |-> error]

\* The handler calls platformioExecutor.execute(command, args, {cwd, timeout}).
Executes(checks, command, args, cwd, timeout) ==
    [kind |-> "execute", checks |-> checks,
     spec |-> [command |-> command, args |-> args, cwd |-> cwd, timeout |-> timeout]]

\* The handler returns value; execs are the executor calls made after the await.
Returns(value) == [kind |-> "return", value |-> value, execs |-> <<>>]

Throws(error) == [kind |-> "throw", error |-> error, execs |-> <<>>]

----------------------------------------------------------------------------
(* src/tools/build.ts                                                      *)

\* EnvironmentArgs passing the name in lower case.
EnvironmentArgs_LowerCase(environment) ==
    IF Truthy(environment)
    THEN <<<<"--environment">>,
           [i \in 1..Len(environment) |->
               IF environment[i] = "E" THEN "e" ELSE environment[i]]>>
    ELSE <<>>

EnvironmentArgs(environment) ==
    IF Truthy(environment) THEN <<<<"--environment">>, environment>> ELSE <<>>

\* EnvironmentOrDefault echoing the parameter as it came.
EnvironmentOrDefault_Echo(environment) == environment

EnvironmentOrDefault(environment) ==
    IF Truthy(environment) THEN environment ELSE <<"default">>

\* Interpreted listing the errors of the error stream whatever the exit code.
Interpreted_ErrorsAlways(result) ==
    [success |-> result.exitCode = 0, errors |-> parseStderrErrors(result.stderr)]

\* Result of the build and upload handlers' interpretation of a CommandResult.
Interpreted(result) ==
    LET success == result.exitCode = 0
    IN [success |-> success,
        errors |-> IF success THEN undefinedList ELSE parseStderrErrors(result.stderr)]

buildProjectBegin(projectDir, environment) ==
    LET validatedPath == validateProjectPath(projectDir)
        pathCheck == Check("projectDir", projectDir, validatedPath.ok)
    IN IF ~validatedPath.ok THEN ThrowsEarly(<<pathCheck>>, validatedPath.error)
       ELSE IF Truthy(environment) /\ ~validateEnvironmentName(environment)
       THEN ThrowsEarly(<<pathCheck, Check("environment", environment, FALSE)>>,
                        BuildError(<<"Invalid environment name: ">> \o environment,
                                   [environment |-> environment]))
       ELSE Executes(
              IF Truthy(environment)
              THEN <<pathCheck, Check("environment", environment, TRUE)>>
              ELSE <<pathCheck>>,
              <<"run">>, EnvironmentArgs(environment), validatedPath.path, 600000)

\* buildProjectEnd reporting the error stream as the output.
buildProjectEnd_OutputFromStderr(projectDir, environment, r) ==
    IF r.type = "outcome"
    THEN LET i == Interpreted(r)
         IN Returns([success |-> i.success,
                     environment |-> EnvironmentOrDefault(environment),
                     output |-> r.stderr,
                     errors |-> i.errors])
    ELSE Throws(BuildError(<<"Build failed: ">> \o r.error.message,
                           [projectDir |-> projectDir, environment |-> environment]))

buildProjectEnd(projectDir, environment, r) ==
    IF r.type = "outcome"
    THEN LET i == Interpreted(r)
         IN Returns([success |-> i.success,
                     environment |-> EnvironmentOrDefault(environment),
                     output |-> r.stdout,
                     errors |-> i.errors])
    ELSE IF InstanceOfPlatformIOError(r.error)
    THEN Throws(BuildError(<<"Build failed: ">> \o r.error.message,
                           [projectDir |-> projectDir, environment |-> environment]))
    ELSE Throws(BuildError(<<"Failed to build project: ">> \o ErrorToString(r.error),
                           [projectDir |-> projectDir, environment |-> environment]))

cleanProjectBegin(projectDir) ==
    LET validatedPath == validateProjectPath(projectDir)
        pathCheck == Check("projectDir", projectDir, validatedPath.ok)
    IN IF ~validatedPath.ok THEN ThrowsEarly(<<pathCheck>>, validatedPath.error)
       ELSE Executes(<<pathCheck>>, <<"run">>, <<<<"--target">>, <<"clean">>>>,
                     validatedPath.path, 60000)

\* cleanProjectEnd running the command a second time when execute rejects.
cleanProjectEnd_Retries(projectDir, r) ==
    IF r.type = "outcome"
    THEN IF r.exitCode # 0
         THEN Throws(BuildError(<<"Clean failed: ">> \o r.stderr,
                                [projectDir |-> projectDir, stderr |-> r.stderr]))
         ELSE Returns([success |-> TRUE,
                       message |-> <<"Successfully cleaned build artifacts">>])
    ELSE [kind |-> "throw",
          error |-> BuildError(<<"Failed to clean project: ">> \o ErrorToString(r.error),
                               [projectDir |-> projectDir]),
          execs |-> <<cleanProjectBegin(projectDir).spec>>]

\* cleanProjectEnd whose catch block wraps every error, its own included.
cleanProjectEnd_WrapsAgain(projectDir, r) ==
    IF r.type = "outcome"
    THEN IF r.exitCode # 0
         THEN Throws(BuildError(
                <<"Failed to clean project: ">>
                  \o ErrorToString(BuildError(<<"Clean failed: ">> \o r.stderr,
                                               [projectDir |-> projectDir,
                                                stderr |-> r.stderr])),
                [projectDir |-> projectDir]))
         ELSE Returns([success |-> TRUE,
                       message |-> <<"Successfully cleaned build artifacts">>])
    ELSE Throws(BuildError(<<"Failed to clean project: ">> \o ErrorToString(r.error),
                           [projectDir |-> projectDir]))

cleanProjectEnd(projectDir, r) ==
    IF r.type = "outcome"
    THEN IF r.exitCode # 0
         \* thrown inside the try block and rethrown by the catch block
         THEN Throws(BuildError(<<"Clean failed: ">> \o r.stderr,
                                [projectDir |-> projectDir, stderr |-> r.stderr]))
         ELSE Returns([success |-> TRUE,
                       message |-> <<"Successfully cleaned build artifacts">>])
    ELSE IF InstanceOfBuildError(r.error) THEN Throws(r.error)
    ELSE Throws(BuildError(<<"Failed to clean project: ">> \o ErrorToString(r.error),
                           [projectDir |-> projectDir]))

\* buildTargetBegin running the command in the directory as the caller gave it.
buildTargetBegin_RawCwd(projectDir, target, environment) ==
    LET validatedPath == validateProjectPath(projectDir)
        pathCheck == Check("projectDir", projectDir, validatedPath.ok)
    IN IF ~validatedPath.ok THEN ThrowsEarly(<<pathCheck>>, validatedPath.error)
       ELSE IF Truthy(environment) /\ ~validateEnvironmentName(environment)
       THEN ThrowsEarly(<<pathCheck, Check("environment", environment, FALSE)>>,
                        BuildError(<<"Invalid environment name: ">> \o environment,
                                   [environment |-> environment]))
       ELSE Executes(
              IF Truthy(environment)
              THEN <<pathCheck, Check("environment", environment, TRUE)>>
              ELSE <<pathCheck>>,
              <<"run">>, <<<<"--target">>, target>> \o EnvironmentArgs(environment),
              projectDir, 600000)

buildTargetBegin(projectDir, target, environment) ==
    LET validatedPath == validateProjectPath(projectDir)
        pathCheck == Check("projectDir", projectDir, validatedPath.ok)
    IN IF ~validatedPath.ok THEN ThrowsEarly(<<pathCheck>>, validatedPath.error)
       ELSE IF Truthy(environment) /\ ~validateEnvironmentName(environment)
       THEN ThrowsEarly(<<pathCheck, Check("environment", environment, FALSE)>>,
                        BuildError(<<"Invalid environment name: ">> \o environment,
                                   [environment |-> environment]))
       ELSE Executes(
              IF Truthy(environment)
              THEN <<pathCheck, Check("environment", environment, TRUE)>>
              ELSE <<pathCheck>>,
              <<"run">>, <<<<"--target">>, target>> \o EnvironmentArgs(environment),
              validatedPath.path, 600000)

buildTargetEnd(projectDir, target, environment, r) ==
    LET context == [projectDir |-> projectDir, target |-> target,
                    environment |-> environment]
    IN IF r.type = "outcome"
       THEN LET i == Interpreted(r)
            IN Returns([success |-> i.success,
                        environment |-> EnvironmentOrDefault(environment),
                        output |-> r.stdout,
                        errors |-> i.errors])
       ELSE IF InstanceOfPlatformIOError(r.error)
       THEN Throws(BuildError(<<"Target '">> \o target \o <<"' failed: ">>
                                \o r.error.message, context))
       ELSE Throws(BuildError(<<"Failed to build target '">> \o target \o <<"': ">>
                                \o ErrorToString(r.error), context))

listTargetsBegin(projectDir, environment) ==
    LET validatedPath == validateProjectPath(projectDir)
        pathCheck == Check("projectDir", projectDir, validatedPath.ok)
    IN IF ~validatedPath.ok THEN ThrowsEarly(<<pathCheck>>, validatedPath.error)
       ELSE Executes(<<pathCheck>>, <<"run">>,
                     <<<<"--list-targets">>>> \o EnvironmentArgs(environment),
                     validatedPath.path, 30000)

\* line.trim(): strips leading and trailing whitespace tokens.
IsSpace(ch) == ch \in {" ", "\t"}

RECURSIVE TrimStart(_)
TrimStart(line) ==
    IF line # <<>> /\ IsSpace(Head(line)) THEN TrimStart(Tail(line)) ELSE line

RECURSIVE TrimEnd(_)
TrimEnd(line) ==
    IF line # <<>> /\ IsSpace(line[Len(line)])
    THEN TrimEnd(SubSeq(line, 1, Len(line) - 1)) ELSE line

Trim(line) == TrimEnd(TrimStart(line))

IsTargetLine(trimmed) ==
    /\ trimmed # <<>>
    /\ Head(trimmed) # "Environment"
    /\ \A i \in 1..Len(trimmed) : trimmed[i] # ":"

\* ParseTargets keeping the lines as they are, untrimmed.
ParseTargets_Untrimmed(stdout) ==
    LET lines == Split(stdout)
    IN SelectLines(lines, [i \in 1..Len(lines) |-> IsTargetLine(Trim(lines[i]))])

ParseTargets(stdout) ==
    LET lines == Split(stdout)
        trimmedLines == [i \in 1..Len(lines) |-> Trim(lines[i])]
    IN SelectLines(trimmedLines,
                   [i \in 1..Len(lines) |-> IsTargetLine(trimmedLines[i])])

listTargetsEnd(projectDir, environment, r) ==
    IF r.type = "outcome"
    THEN IF r.exitCode # 0
         THEN Throws(BuildError(<<"Failed to list targets">>,
                                [projectDir |-> projectDir, stderr |-> r.stderr]))
         ELSE Returns(ParseTargets(r.stdout))
    ELSE IF InstanceOfBuildError(r.error) THEN Throws(r.error)
    ELSE Throws(BuildError(<<"Failed to list build targets: ">> \o ErrorToString(r.error),
                           [projectDir |-> projectDir]))

----------------------------------------------------------------------------
(* src/tools/upload.ts                                                     *)

\* args.slice(1)
\* Slice1 leaving the subcommand at the head of the vector.
Slice1_KeepsSubcommand(args) == args

Slice1(args) == SubSeq(args, 2, Len(args))

\* The validations the upload handlers run before their try block, in order.
UploadChecks(projectDir, port, environment, validatedPath) ==
    LET pathCheck == <<Check("projectDir", projectDir, validatedPath.ok)>>
        envCheck == IF Truthy(environment)
                    THEN <<Check("environment", environment,
                                 validateEnvironmentName(environment))>>
                    ELSE <<>>
        portCheck == IF Truthy(port)
                     THEN <<Check("port", port, validateSerialPort(port))>>
                     ELSE <<>>
    IN IF ~validatedPath.ok THEN pathCheck
       ELSE IF envCheck # <<>> /\ ~envCheck[1].accepted THEN pathCheck \o envCheck
       ELSE pathCheck \o envCheck \o portCheck

\* uploadFirmwareBegin testing the port without throwing on a rejection.
uploadFirmwareBegin_PortNotEnforced(projectDir, port, environment) ==
    LET validatedPath == validateProjectPath(projectDir)
        checks == UploadChecks(projectDir, port, environment, validatedPath)
    IN IF ~validatedPath.ok THEN ThrowsEarly(checks, validatedPath.error)
       ELSE IF Truthy(environment) /\ ~validateEnvironmentName(environment)
       THEN ThrowsEarly(checks,
                        UploadError(<<"Invalid environment name: ">> \o environment,
                                    [environment |-> environment]))
       ELSE LET args == <<<<"run">>, <<"--target">>, <<"upload">>>>
                          \o EnvironmentArgs(environment)
                          \o (IF Truthy(port) THEN <<<<"--upload-port">>, port>> ELSE <<>>)
            IN Executes(checks, <<"run">>, Slice1(args), validatedPath.path, 300000)

uploadFirmwareBegin(projectDir, port, environment) ==
    LET validatedPath == validateProjectPath(projectDir)
        checks == UploadChecks(projectDir, port, environment, validatedPath)
    IN IF ~validatedPath.ok THEN ThrowsEarly(checks, validatedPath.error)
       ELSE IF Truthy(environment) /\ ~validateEnvironmentName(environment)
       THEN ThrowsEarly(checks,
                        UploadError(<<"Invalid environment name: ">> \o environment,
                                    [environment |-> environment]))
       ELSE IF Truthy(port) /\ ~validateSerialPort(port)
       THEN ThrowsEarly(checks,
                        UploadError(<<"Invalid serial port: ">> \o port, [port |-> port]))
       ELSE LET args == <<<<"run">>, <<"--target">>, <<"upload">>>>
                          \o EnvironmentArgs(environment)
                          \o (IF Truthy(port) THEN <<<<"--upload-port">>, port>> ELSE <<>>)
            IN Executes(checks, <<"run">>, Slice1(args), validatedPath.path, 300000)

uploadFirmwareEnd(projectDir, port, environment, r) ==
    LET context == [projectDir |-> projectDir, port |-> port,
                    environment |-> environment]
    IN IF r.type = "outcome"
       THEN LET i == Interpreted(r)
            IN Returns([success |-> i.success, port |-> port,
                        output |-> r.stdout, errors |-> i.errors])
       ELSE IF InstanceOfPlatformIOError(r.error)
       THEN Throws(UploadError(<<"Upload failed: ">> \o r.error.message, context))
       ELSE Throws(UploadError(<<"Failed to upload firmware: ">>
                                 \o ErrorToString(r.error), context))

\* uploadAndMonitorBegin validating the port before the environment.
uploadAndMonitorBegin_PortFirst(projectDir, port, environment) ==
    LET validatedPath == validateProjectPath(projectDir)
        pathCheck == <<Check("projectDir", projectDir, validatedPath.ok)>>
        portCheck == IF Truthy(port)
                     THEN <<Check("port", port, validateSerialPort(port))>>
                     ELSE <<>>
        envCheck == IF Truthy(environment)
                    THEN <<Check("environment", environment,
                                 validateEnvironmentName(environment))>>
                    ELSE <<>>
    IN IF ~validatedPath.ok THEN ThrowsEarly(pathCheck, validatedPath.error)
       ELSE IF Truthy(port) /\ ~validateSerialPort(port)
       THEN ThrowsEarly(pathCheck \o portCheck,
                        UploadError(<<"Invalid serial port: ">> \o port, [port |-> port]))
       ELSE IF Truthy(environment) /\ ~validateEnvironmentName(environment)
       THEN ThrowsEarly(pathCheck \o portCheck \o envCheck,
                        UploadError(<<"Invalid environment name: ">> \o environment,
                                    [environment |-> environment]))
       ELSE LET args == <<<<"run">>, <<"--target">>, <<"upload">>,
                            <<"--target">>, <<"monitor">>>>
                          \o EnvironmentArgs(environment)
                          \o (IF Truthy(port)
                              THEN <<<<"--upload-port">>, port, <<"--monitor-port">>, port>>
                              ELSE <<>>)
            IN Executes(pathCheck \o portCheck \o envCheck, <<"run">>, Slice1(args),
                        validatedPath.path, 300000)

uploadAndMonitorBegin(projectDir, port, environment) ==
    LET validatedPath == validateProjectPath(projectDir)
        checks == UploadChecks(projectDir, port, environment, validatedPath)
    IN IF ~validatedPath.ok THEN ThrowsEarly(checks, validatedPath.error)
       ELSE IF Truthy(environment) /\ ~validateEnvironmentName(environment)
       THEN ThrowsEarly(checks,
                        UploadError(<<"Invalid environment name: ">> \o environment,
                                    [environment |-> environment]))
       ELSE IF Truthy(port) /\ ~validateSerialPort(port)
       THEN ThrowsEarly(checks,
                        UploadError(<<"Invalid serial port: ">> \o port, [port |-> port]))
       ELSE LET args == <<<<"run">>, <<"--target">>, <<"upload">>,
                            <<"--target">>, <<"monitor">>>>
                          \o EnvironmentArgs(environment)
                          \o (IF Truthy(port)
                              THEN <<<<"--upload-port">>, port, <<"--monitor-port">>, port>>
                              ELSE <<>>)
            IN Executes(checks, <<"run">>, Slice1(args), validatedPath.path, 300000)

uploadAndMonitorEnd(projectDir, port, environment, r) ==
    LET context == [projectDir |-> projectDir, port |-> port,
                    environment |-> environment]
    IN IF r.type = "outcome"
       THEN LET i == Interpreted(r)
            IN Returns([success |-> i.success, port |-> port,
                        output |-> r.stdout, errors |-> i.errors])
       ELSE IF InstanceOfPlatformIOError(r.error)
       THEN Throws(UploadError(<<"Upload and monitor failed: ">> \o r.error.message,
                               context))
       ELSE Throws(UploadError(<<"Failed to upload and monitor: ">>
                                 \o ErrorToString(r.error), context))

uploadFilesystemBegin(projectDir, port, environment) ==
    LET validatedPath == validateProjectPath(projectDir)
        checks == UploadChecks(projectDir, port, environment, validatedPath)
    IN IF ~validatedPath.ok THEN ThrowsEarly(checks, validatedPath.error)
       ELSE IF Truthy(environment) /\ ~validateEnvironmentName(environment)
       THEN ThrowsEarly(checks,
                        UploadError(<<"Invalid environment name: ">> \o environment,
                                    [environment |-> environment]))
       ELSE IF Truthy(port) /\ ~validateSerialPort(port)
       THEN ThrowsEarly(checks,
                        UploadError(<<"Invalid serial port: ">> \o port, [port |-> port]))
       ELSE LET args == <<<<"run">>, <<"--target">>, <<"uploadfs">>>>
                          \o EnvironmentArgs(environment)
                          \o (IF Truthy(port) THEN <<<<"--upload-port">>, port>> ELSE <<>>)
            IN Executes(checks, <<"run">>, Slice1(args), validatedPath.path, 300000)

uploadFilesystemEnd(projectDir, port, environment, r) ==
    LET context == [projectDir |-> projectDir, port |-> port,
                    environment |-> environment]
    IN IF r.type = "outcome"
       THEN LET i == Interpreted(r)
            IN Returns([success |-> i.success, port |-> port,
                        output |-> r.stdout, errors |-> i.errors])
       ELSE IF InstanceOfPlatformIOError(r.error)
       THEN Throws(UploadError(<<"Filesystem upload failed: ">> \o r.error.message,
                               context))
       ELSE Throws(UploadError(<<"Failed to upload filesystem: ">>
                                 \o ErrorToString(r.error), context))

\* buildAndUpload returns uploadFirmware(projectDir, port, environment).
\* buildAndUploadBegin running a build of its own before the upload.
buildAndUploadBegin_BuildsFirst(projectDir, port, environment) ==
    buildProjectBegin(projectDir, environment)

buildAndUploadBegin(projectDir, port, environment) ==
    uploadFirmwareBegin(projectDir, port, environment)

buildAndUploadEnd(projectDir, port, environment, r) ==
    uploadFirmwareEnd(projectDir, port, environment, r)

----------------------------------------------------------------------------
(* The handlers by name.  p is the record of the call's parameters.        *)

Handlers ==
    {"buildProject", "cleanProject", "buildTarget", "listTargets",
     "uploadFirmware", "uploadAndMonitor", "buildAndUpload", "uploadFilesystem"}

HandlerBegin(h, p) ==
    CASE h = "buildProject" -> buildProjectBegin(p.projectDir, p.environment)
      [] h = "cleanProject" -> cleanProjectBegin(p.projectDir)
      [] h = "buildTarget" -> buildTargetBegin(p.projectDir, p.target, p.environment)
      [] h = "listTargets" -> listTargetsBegin(p.projectDir, p.environment)
      [] h = "uploadFirmware" -> uploadFirmwareBegin(p.projectDir, p.port, p.environment)
      [] h = "uploadAndMonitor" -> uploadAndMonitorBegin(p.projectDir, p.port, p.environment)
      [] h = "buildAndUpload" -> buildAndUploadBegin(p.projectDir, p.port, p.environment)
      [] h = "uploadFilesystem" -> uploadFilesystemBegin(p.projectDir, p.port, p.environment)

HandlerEnd(h, p, r) ==
    CASE h = "buildProject" -> buildProjectEnd(p.projectDir, p.environment, r)
      [] h = "cleanProject" -> cleanProjectEnd(p.projectDir, r)
      [] h = "buildTarget" -> buildTargetEnd(p.projectDir, p.target, p.environment, r)
      [] h = "listTargets" -> listTargetsEnd(p.projectDir, p.environment, r)
      [] h = "uploadFirmware" -> uploadFirmwareEnd(p.projectDir, p.port, p.environment, r)
      [] h = "uploadAndMonitor" -> uploadAndMonitorEnd(p.projectDir, p.port, p.environment, r)
      [] h = "buildAndUpload" -> buildAndUploadEnd(p.projectDir, p.port, p.environment, r)
      [] h = "uploadFilesystem" -> uploadFilesystemEnd(p.projectDir, p.port, p.environment, r)

----------------------------------------------------------------------------
(* src/types.ts: the MCP tool parameter schemas.                           *)

\* JavaScript values of a request's arguments.
JsUndefined == [t |-> "undefined", v |-> <<>>]
JsNumber == [t |-> "number", v |-> <<>>]
JsRecord == [t |-> "record", v |-> <<>>]
JsString(s) == [t |-> "string", v |-> s]

\* z.string().min(1), z.string(), and their .optional() forms.
Required(name) == [name |-> name, type |-> "string", optional |-> FALSE, min |-> 1]
RequiredAny(name) == [name |-> name, type |-> "string", optional |-> FALSE, min |-> 0]
Optional(name) == [name |-> name, type |-> "string", optional |-> TRUE, min |-> 0]
OptionalOf(name, type) == [name |-> name, type |-> type, optional |-> TRUE, min |-> 0]

ListBoardsParamsSchema == {Optional("filter")}

GetBoardInfoParamsSchema == {Required("boardId")}

InitProjectParamsSchema ==
    {Required("board"), Optional("framework"), RequiredAny("projectDir"),
     OptionalOf("platformOptions", "record")}

BuildProjectParamsSchema == {Required("projectDir"), Optional("environment")}

CleanProjectParamsSchema == {Required("projectDir")}

UploadFirmwareParamsSchema ==
    {Required("projectDir"), Optional("port"), Optional("environment")}

UploadFilesystemParamsSchema ==
    {Required("projectDir"), Optional("port"), Optional("environment")}

StartMonitorParamsSchema ==
    {Optional("port"), OptionalOf("baud", "number"), Optional("projectDir")}

SearchLibrariesParamsSchema == {Required("query"), OptionalOf("limit", "number")}

InstallLibraryParamsSchema ==
    {Required("library"), Optional("projectDir"), Optional("version")}

ListInstalledLibrariesParamsSchema == {Optional("projectDir")}

FieldNames(schema) == {f.name : f \in schema}

\* schema.parse(args) succeeds.
SchemaAccepts(schema, args) ==
    /\ args.t = "object"
    /\ \A f \in schema :
         LET v == args.fields[f.name]
         IN \/ v.t = "undefined" /\ f.optional
            \/ v.t = f.type /\ (f.type = "string" => Len(v.v) >= f.min)

\* The parsed parameters: an absent optional field is undefined.
SchemaParams(schema, args) ==
    [n \in FieldNames(schema) |->
        IF args.fields[n].t = "string" THEN args.fields[n].v ELSE undefined]

----------------------------------------------------------------------------
(* src/index.ts: the CallToolRequestSchema handler.                        *)

\* The cases of the dispatcher's switch, with the schema each one parses.
\* list_devices parses nothing.
ToolSchema(name) ==
    CASE name = "list_boards" -> ListBoardsParamsSchema
      [] name = "get_board_info" -> GetBoardInfoParamsSchema
      [] name = "list_devices" -> {}
      [] name = "init_project" -> InitProjectParamsSchema
      [] name = "build_project" -> BuildProjectParamsSchema
      [] name = "clean_project" -> CleanProjectParamsSchema
      [] name = "upload_firmware" -> UploadFirmwareParamsSchema
      [] name = "upload_filesystem" -> UploadFilesystemParamsSchema
      [] name = "start_monitor" -> StartMonitorParamsSchema
      [] name = "search_libraries" -> SearchLibrariesParamsSchema
      [] name = "install_library" -> InstallLibraryParamsSchema
      [] name = "list_installed_libraries" -> ListInstalledLibrariesParamsSchema

DispatcherCases ==
    {"list_boards", "get_board_info", "list_devices", "init_project",
     "build_project", "clean_project", "upload_firmware", "upload_filesystem",
     "start_monitor", "search_libraries", "install_library",
     "list_installed_libraries"}

\* The handler function each case calls.
ToolHandler(name) ==
    CASE name = "list_boards" -> "listBoards"
      [] name = "get_board_info" -> "getBoardInfo"
      [] name = "list_devices" -> "listDevices"
      [] name = "init_project" -> "initProject"
      [] name = "build_project" -> "buildProject"
      [] name = "clean_project" -> "cleanProject"
      [] name = "upload_firmware" -> "uploadFirmware"
      [] name = "upload_filesystem" -> "uploadFilesystem"
      [] name = "start_monitor" -> "startMonitor"
      [] name = "search_libraries" -> "searchLibraries"
      [] name = "install_library" -> "installLibrary"
      [] name = "list_installed_libraries" -> "listInstalledLibraries"

NoParams ==
    [projectDir |-> undefined, port |-> undefined,
     environment |-> undefined, target |-> undefined]

\* The arguments a case passes to its handler.
ToolParams(name, params) ==
    LET get(n) == IF n \in DOMAIN params THEN params[n] ELSE undefined
    IN [projectDir |-> get("projectDir"), port |-> get("port"),
        environment |-> get("environment"), target |-> undefined]

\* CallToolDispatch whose default branch lists the boards instead of throwing.
CallToolDispatch_DefaultListsBoards(name, args) ==
    IF name \notin DispatcherCases
    THEN [kind |-> "invoke", handler |-> "listBoards", p |-> NoParams,
          error |-> NoContext]
    ELSE IF name # "list_devices" /\ ~SchemaAccepts(ToolSchema(name), args)
    THEN [kind |-> "throw", handler |-> "none", p |-> NoParams,
          error |-> NewError("ZodError", <<"Invalid arguments">>, NoContext)]
    ELSE [kind |-> "invoke", handler |-> ToolHandler(name),
          p |-> IF name = "list_devices" THEN NoParams
                ELSE ToolParams(name, SchemaParams(ToolSchema(name), args)),
          error |-> NoContext]

\* The switch up to the call of the handler: throws, or invokes handler with p.
CallToolDispatch(name, args) ==
    IF name \notin DispatcherCases
    THEN [kind |-> "throw", handler |-> "none", p |-> NoParams,
          error |-> NewError("Error", <<"Unknown tool: ", name>>, NoContext)]
    ELSE IF name # "list_devices" /\ ~SchemaAccepts(ToolSchema(name), args)
    THEN [kind |-> "throw", handler |-> "none", p |-> NoParams,
          error |-> NewError("ZodError", <<"Invalid arguments">>, NoContext)]
    ELSE [kind |-> "invoke", handler |-> ToolHandler(name),
          p |-> IF name = "list_devices" THEN NoParams
                ELSE ToolParams(name, SchemaParams(ToolSchema(name), args)),
          error |-> NoContext]

\* The remediation hint of an error kind.
Hint(kind) ==
    CASE kind = "ToolNotInstalled" -> <<" Install PlatformIO Core CLI">>
      [] kind = "Timeout" -> <<" The command timed out">>
      [] kind = "InvalidPath" -> <<" Check the project path">>
      [] OTHER -> <<>>

formatPlatformIOError(error) ==
    IF InstanceOfPlatformIOError(error)
    THEN <<error.name, ": ">> \o error.message \o Hint(ErrorKind(error))
    ELSE error.message

\* JSON.stringify(value, null, 2): the text that holds value.
JSONstringify(value) == [json |-> value]

NoResponse == [kind |-> "none"]

\* ListedTools without the filesystem upload.
ListedTools_WithoutUploadFilesystem ==
    <<"list_boards", "get_board_info", "list_devices", "init_project",
      "build_project", "clean_project", "upload_firmware", "start_monitor",
      "search_libraries", "install_library", "list_installed_libraries">>

\* The names of the tools array the ListTools handler returns, in its order.
ListedTools ==
    <<"list_boards", "get_board_info", "list_devices", "init_project",
      "build_project", "clean_project", "upload_firmware", "upload_filesystem",
      "start_monitor", "search_libraries", "install_library",
      "list_installed_libraries">>

\* The tools the installation guide and the README document.
DocumentedTools ==
    {"list_boards", "get_board_info", "list_devices", "init_project",
     "build_project", "clean_project", "upload_firmware", "start_monitor",
     "search_libraries", "install_library", "list_installed_libraries"}

\* What the ListTools request handler returns.
ListToolsResponse == [kind |-> "tools", tools |-> ListedTools]

\* CallToolResponse with a catch block that rethrows what is not a
\* PlatformIOError.
CallToolResponse_RethrowsPlainErrors(ret) ==
    IF ret.kind = "return"
    THEN [kind |-> "result", isError |-> FALSE,
          content |-> <<[type |-> "text", text |-> JSONstringify(ret.value)]>>]
    ELSE IF InstanceOfPlatformIOError(ret.error)
    THEN [kind |-> "result", isError |-> TRUE,
          content |-> <<[type |-> "text",
                         text |-> <<"Error: ">> \o formatPlatformIOError(ret.error)]>>]
    ELSE [kind |-> "fault"]

\* What the request handler does with the outcome of its try block: the
\* result of a case is returned as text without an isError mark (FALSE here),
\* a thrown error is caught.
CallToolResponse(ret) ==
    IF ret.kind = "return"
    THEN [kind |-> "result", isError |-> FALSE,
          content |-> <<[type |-> "text", text |-> JSONstringify(ret.value)]>>]
    ELSE [kind |-> "result", isError |-> TRUE,
          content |-> <<[type |-> "text",
                         text |-> <<"Error: ">> \o formatPlatformIOError(ret.error)]>>]

----------------------------------------------------------------------------
(* Inputs.                                                                 *)

ProjectDirs ==
    { <<>>, <<"proj">>, <<"proj", ".", "src", "..">>, <<"..", "etc">>, <<"a;b">> }

EnvironmentNames == {undefined} \cup StringsUpTo(IdChars, MaxIdLen)

Ports ==
    { undefined, <<>>, <<"/dev/tty", "USB0">>, <<"COM", "3">>,
      <<"/dev/tty", "USB0", ";">> }

Targets == { <<"upload">>, <<"x", ";">> }

\* The parameters a direct call of handler h is made with.
HandlerParams(h) ==
    [projectDir : ProjectDirs,
     port : IF h \in {"uploadFirmware", "uploadAndMonitor", "buildAndUpload",
                      "uploadFilesystem"}
            THEN Ports ELSE {undefined},
     environment : IF h = "cleanProject" THEN {undefined} ELSE EnvironmentNames,
     target : IF h = "buildTarget" THEN Targets ELSE {undefined}]

ToolNames == DispatcherCases \cup {"no_such_tool"}

\* The values a tool request gives the field named n.
FieldValues(n) ==
    CASE n = "projectDir" ->
           {JsUndefined, JsNumber, JsString(<<>>), JsString(<<"proj">>),
            JsString(<<"..", "etc">>)}
      [] n = "environment" -> {JsUndefined, JsString(<<"e">>), JsString(<<";">>)}
      [] n = "port" ->
           {JsUndefined, JsString(<<"COM", "3">>), JsString(<<"COM", ";">>)}
      [] n \in {"baud", "limit"} -> {JsUndefined, JsNumber}
      [] n = "platformOptions" -> {JsUndefined, JsRecord}
      [] OTHER -> {JsUndefined, JsString(<<>>), JsString(<<"x">>)}

\* The arguments of a tool request: none, or an object over the tool's fields.
ToolArguments(name) ==
    LET names == IF name \in DispatcherCases THEN FieldNames(ToolSchema(name)) ELSE {}
        objects == {f \in [names -> UNION {FieldValues(n) : n \in names}] :
                      \A n \in names : f[n] \in FieldValues(n)}
    IN {[t |-> "undefined", fields |-> <<>>]}
         \cup {[t |-> "object", fields |-> f] : f \in objects}

\* What a handler outside build.ts and upload.ts ends with.
OtherHandlerResults ==
    { Returns(<<"payload">>), Throws(SpawnFailed), Throws(OtherFailure) }

----------------------------------------------------------------------------
(* State: one slot per call in flight.                                     *)

CallIds == {1}

VARIABLES
    pc,        \* "idle", "awaiting" (suspended at the await) or "done"
    call,      \* how the call was made: via, tool name, arguments, handler, p
    checks,    \* the validations the handler ran, in order
    execLog,   \* the CommandSpecs passed to platformioExecutor.execute
    settled,   \* what the await of execute settled with
    ret,       \* what the handler (or the dispatcher's try block) ended with
    response,  \* the response of the request handler to the transport
    server,    \* where main is: "starting", "connecting" or "running"
    console    \* the lines main has written with console.error

vars == <<pc, call, checks, execLog, settled, ret, response, server, console>>

NoCall ==
    [via |-> "none", tool |-> "none",
     args |-> [t |-> "undefined", fields |-> <<>>],
     handler |-> "none", p |-> NoParams]

NotSettled == [type |-> "none"]

NoRet == [kind |-> "none"]

Init ==
    /\ pc = [c \in CallIds |-> "idle"]
    /\ call = [c \in CallIds |-> NoCall]
    /\ checks = [c \in CallIds |-> <<>>]
    /\ execLog = [c \in CallIds |-> <<>>]
    /\ settled = [c \in CallIds |-> NotSettled]
    /\ ret = [c \in CallIds |-> NoRet]
    /\ response = [c \in CallIds |-> NoResponse]
    /\ server = "starting"
    /\ console = <<>>

\* The lines main writes when checkPlatformIOInstalled resolves to false.
InstallWarning ==
    << <<"Warning: PlatformIO CLI not found. Please install it from https://platformio.org/install/cli">>,
       <<"The server will start but commands will fail until PlatformIO is installed.", "\n">> >>

\* The lines main writes once the transport is connected.
RunningBanner ==
    << <<"PlatformIO MCP Server running on stdio">>,
       <<"Server supports 1000+ boards across 30+ platforms">> >>

\* MainChecksInstall giving up when PlatformIO is not installed.
MainChecksInstall_ExitsWhenMissing(isInstalled) ==
    /\ server = "starting"
    /\ server' = IF isInstalled THEN "connecting" ELSE "exited"
    /\ console' = IF ~isInstalled THEN console \o InstallWarning ELSE console
    /\ UNCHANGED <<pc, call, checks, execLog, settled, ret, response>>

\* main: await checkPlatformIOInstalled() resolves to isInstalled; main warns
\* when it is false and goes on to connect the transport.
MainChecksInstall(isInstalled) ==
    /\ server = "starting"
    /\ server' = "connecting"
    /\ console' = IF ~isInstalled THEN console \o InstallWarning ELSE console
    /\ UNCHANGED <<pc, call, checks, execLog, settled, ret, response>>

\* main: await server.connect(transport) resolves; the server runs.
MainConnects ==
    /\ server = "connecting"
    /\ server' = "running"
    /\ console' = console \o RunningBanner
    /\ UNCHANGED <<pc, call, checks, execLog, settled, ret, response>>

\* The handler runs up to its await: it throws, or it calls the executor.
Invoke(c, via, h, p) ==
    LET b == HandlerBegin(h, p)
    IN /\ checks' = [checks EXCEPT ![c] = b.checks]
       /\ IF b.kind = "throw"
          THEN /\ pc' = [pc EXCEPT ![c] = "done"]
               /\ ret' = [ret EXCEPT ![c] = Throws(b.error)]
               /\ response' = [response EXCEPT ![c] =
                     IF via = "tool" THEN CallToolResponse(Throws(b.error))
                     ELSE NoResponse]
               /\ UNCHANGED execLog
          ELSE /\ pc' = [pc EXCEPT ![c] = "awaiting"]
               /\ execLog' = [execLog EXCEPT ![c] = Append(@, b.spec)]
               /\ UNCHANGED <<ret, response>>

\* A caller calls handler h with parameters p.
HandlerCall(c, h, p) ==
    /\ server = "running"
    /\ pc[c] = "idle"
    /\ call' = [call EXCEPT ![c] =
          [via |-> "direct", tool |-> "none", args |-> NoCall.args,
           handler |-> h, p |-> p]]
    /\ Invoke(c, "direct", h, p)
    /\ UNCHANGED <<settled, server, console>>

\* The transport delivers a tools/call request.
CallTool(c, name, args) ==
    LET d == CallToolDispatch(name, args)
    IN /\ server = "running"
       /\ pc[c] = "idle"
       /\ call' = [call EXCEPT ![c] =
             [via |-> "tool", tool |-> name, args |-> args,
              handler |-> d.handler, p |-> d.p]]
       /\ IF d.kind = "throw"
          THEN /\ pc' = [pc EXCEPT ![c] = "done"]
               /\ ret' = [ret EXCEPT ![c] = Throws(d.error)]
               /\ response' = [response EXCEPT ![c] = CallToolResponse(Throws(d.error))]
               /\ UNCHANGED <<checks, execLog>>
          ELSE IF d.handler \in Handlers
          THEN Invoke(c, "tool", d.handler, d.p)
          ELSE /\ pc' = [pc EXCEPT ![c] = "awaiting"]
               /\ UNCHANGED <<checks, execLog, ret, response>>
       /\ UNCHANGED <<settled, server, console>>

\* The transport delivers a tools/list request; its handler answers at once.
ListTools(c) ==
    /\ server = "running"
    /\ pc[c] = "idle"
    /\ call' = [call EXCEPT ![c] =
          [via |-> "list", tool |-> "none", args |-> NoCall.args,
           handler |-> "none", p |-> NoCall.p]]
    /\ pc' = [pc EXCEPT ![c] = "done"]
    /\ response' = [response EXCEPT ![c] = ListToolsResponse]
    /\ UNCHANGED <<checks, execLog, settled, ret, server, console>>

\* Finish losing an error the handler throws: the call never ends.
Finish_DropsThrow(c, e) ==
    /\ pc' = [pc EXCEPT ![c] = IF e.kind = "throw" THEN "awaiting" ELSE "done"]
    /\ ret' = [ret EXCEPT ![c] = IF e.kind = "throw" THEN NoRet ELSE e]
    /\ execLog' = [execLog EXCEPT ![c] = @ \o e.execs]
    /\ response' = [response EXCEPT ![c] =
          IF call[c].via = "tool" /\ e.kind = "return"
          THEN CallToolResponse(e) ELSE NoResponse]
    /\ UNCHANGED <<call, checks, server, console>>

\* The handler ends with e; a tool call's request handler answers.
Finish(c, e) ==
    /\ pc' = [pc EXCEPT ![c] = "done"]
    /\ ret' = [ret EXCEPT ![c] = e]
    /\ execLog' = [execLog EXCEPT ![c] = @ \o e.execs]
    /\ response' = [response EXCEPT ![c] =
          IF call[c].via = "tool" THEN CallToolResponse(e) ELSE NoResponse]
    /\ UNCHANGED <<call, checks, server, console>>

\* ExecuteSettles with the parameters kept in one place for all calls: the
\* handler goes on with those of the call that started last.
ExecuteSettles_SharedParams(c, r) ==
    LET last == CHOOSE d \in DOMAIN pc :
                    /\ pc[d] # "idle"
                    /\ \A e \in DOMAIN pc : pc[e] # "idle" => e <= d
    IN /\ pc[c] = "awaiting"
       /\ call[c].handler \in Handlers
       /\ settled' = [settled EXCEPT ![c] = r]
       /\ Finish(c, HandlerEnd(call[c].handler, call[last].p, r))

\* The executor settles the await of a handler of build.ts or upload.ts.
ExecuteSettles(c, r) ==
    /\ pc[c] = "awaiting"
    /\ call[c].handler \in Handlers
    /\ settled' = [settled EXCEPT ![c] = r]
    /\ Finish(c, HandlerEnd(call[c].handler, call[c].p, r))

\* A handler of another module returns or throws.
OtherHandlerSettles(c, e) ==
    /\ pc[c] = "awaiting"
    /\ call[c].handler \notin Handlers
    /\ UNCHANGED settled
    /\ Finish(c, e)

Next ==
    \/ \E isInstalled \in BOOLEAN : MainChecksInstall(isInstalled)
    \/ MainConnects
    \/ \E c \in CallIds :
        \/ \E h \in Handlers : \E p \in HandlerParams(h) : HandlerCall(c, h, p)
        \/ \E name \in ToolNames : \E args \in ToolArguments(name) : CallTool(c, name, args)
        \/ ListTools(c)
        \/ \E r \in ExecutorResults : ExecuteSettles(c, r)
        \/ \E e \in OtherHandlerResults : OtherHandlerSettles(c, e)

Spec == Init /\ [][Next]_vars

\* The awaits of main resolve, and so does every await of a handler: the
\* executor ends each command with an outcome or a failure, at the latest
\* when its timeout expires.
Fairness ==
    /\ WF_vars(\E isInstalled \in BOOLEAN : MainChecksInstall(isInstalled))
    /\ WF_vars(MainConnects)
    /\ \A c \in CallIds :
          /\ WF_vars(\E r \in ExecutorResults : ExecuteSettles(c, r))
          /\ WF_vars(\E e \in OtherHandlerResults : OtherHandlerSettles(c, e))

SpecFair == Spec /\ Fairness

----------------------------------------------------------------------------
(* Two requests in flight: their handlers interleave at their awaits.      *)

ConcCallIds == {1, 2}

ConcHandlers == {"buildProject", "uploadFirmware"}

ConcHandlerParams(h) ==
    [projectDir : { <<"a">>, <<"b", ".">> },
     port : IF h = "uploadFirmware"
            THEN { <<"COM", "3">>, <<"/dev/tty", "USB0">> } ELSE {undefined},
     environment : {undefined},
     target : {undefined}]

ConcToolNames == {"build_project", "list_devices"}

ConcToolArguments(name) ==
    IF name = "build_project"
    THEN {[t |-> "object",
           fields |-> [projectDir |-> JsString(d), environment |-> e]] :
            d \in { <<"a">>, <<"..">> }, e \in { JsUndefined, JsString(<<"E">>) }}
    ELSE {[t |-> "undefined", fields |-> <<>>]}

ConcExecutorResults ==
    { [type |-> "outcome", exitCode |-> 0, stdout |-> <<"ok">>, stderr |-> <<>>],
      [type |-> "outcome", exitCode |-> 1, stdout |-> <<>>,
       stderr |-> <<"Error: ", "could not open port", "\n">>],
      [type |-> "failure", error |-> TimedOut] }

InitConc ==
    /\ pc = [c \in ConcCallIds |-> "idle"]
    /\ call = [c \in ConcCallIds |-> NoCall]
    /\ checks = [c \in ConcCallIds |-> <<>>]
    /\ execLog = [c \in ConcCallIds |-> <<>>]
    /\ settled = [c \in ConcCallIds |-> NotSettled]
    /\ ret = [c \in ConcCallIds |-> NoRet]
    /\ response = [c \in ConcCallIds |-> NoResponse]
    /\ server = "starting"
    /\ console = <<>>

NextConc ==
    \/ \E isInstalled \in BOOLEAN : MainChecksInstall(isInstalled)
    \/ MainConnects
    \/ \E c \in ConcCallIds :
        \/ \E h \in ConcHandlers : \E p \in ConcHandlerParams(h) : HandlerCall(c, h, p)
        \/ \E name \in ConcToolNames : \E args \in ConcToolArguments(name) :
              CallTool(c, name, args)
        \/ ListTools(c)
        \/ \E r \in ConcExecutorResults : ExecuteSettles(c, r)
        \/ \E e \in OtherHandlerResults : OtherHandlerSettles(c, e)

SpecConc == InitConc /\ [][NextConc]_vars

----------------------------------------------------------------------------
(* Properties.                                                             *)

\* A validation the handler ran rejected its input.
Rejected(c) == \E i \in 1..Len(checks[c]) : ~checks[c][i].accepted

\* The handler ran its validator on value v of field f and it was accepted.
Accepted(c, f, v) ==
    \E i \in 1..Len(checks[c]) :
        checks[c][i] = Check(f, v, TRUE)

\* The await of the call settled with executor failure e.
FailedWith(c, e) ==
    /\ call[c].handler \in Handlers
    /\ pc[c] = "done"
    /\ settled[c].type = "failure"
    /\ settled[c].error = e

\* C1: when a validation run by a handler rejects the project path, the
\* environment name or the serial port, the handler has failed at once (the
\* rejection is the last validation it ran, and it threw) and
\* platformioExecutor.execute was not called for that invocation.
C1_RejectionNeverReachesExecutor ==
    \A c \in CallIds :
        Rejected(c) =>
            /\ pc[c] = "done"
            /\ ret[c].kind = "throw"
            /\ \A i \in 1..(Len(checks[c]) - 1) : checks[c][i].accepted
            /\ execLog[c] = <<>>
            /\ settled[c].type = "none"

C1_Witness ==
    \E c \in CallIds :
        /\ call[c].handler = "uploadFirmware"
        /\ Len(checks[c]) = 3
        /\ checks[c][3].field = "port"
        /\ ~checks[c][3].accepted
        /\ pc[c] = "done"

\* C2: every executor call has the validated project directory as its
\* working directory, and every caller-supplied environment, port or target
\* in its argument vector was accepted by its validator first.
C2_NoRawStringReachesExecutor ==
    \A c \in CallIds :
        \A i \in 1..Len(execLog[c]) :
            LET p == call[c].p
                spec == execLog[c][i]
            IN /\ Accepted(c, "projectDir", p.projectDir)
               /\ spec.cwd = validateProjectPath(p.projectDir).path
               /\ \A f \in {"environment", "port", "target"} :
                    (Truthy(p[f]) /\ \E j \in 1..Len(spec.args) : spec.args[j] = p[f])
                        => Accepted(c, f, p[f])

\* C3: a finished tool call has a response, never an escaped fault, and
\* whatever was thrown by schema parsing, by a handler or by the
\* unknown-tool branch is answered with isError true and the text "Error: "
\* followed by the formatted message.
C3_ToolCallAlwaysAnswered ==
    \A c \in CallIds :
        (call[c].via = "tool" /\ pc[c] = "done") =>
            /\ response[c].kind = "result"
            /\ ret[c].kind = "throw" =>
                 /\ response[c].isError
                 /\ Len(response[c].content) = 1
                 /\ response[c].content[1].text
                      = <<"Error: ">> \o formatPlatformIOError(ret[c].error)

C3_Witness ==
    \E c \in CallIds :
        /\ call[c].via = "tool"
        /\ call[c].tool = "no_such_tool"
        /\ pc[c] = "done"
        /\ response[c].kind = "result"
        /\ response[c].isError

\* C4: a tool call whose external process exited with a non-zero exit code
\* is answered with a marked error result (isError true).
C4_NonZeroExitIsErrorResult ==
    \A c \in CallIds :
        ( /\ call[c].via = "tool"
          /\ pc[c] = "done"
          /\ settled[c].type = "outcome"
          /\ settled[c].exitCode # 0 )
        => (response[c].kind = "result" /\ response[c].isError)

\* The handlers whose result carries the captured output.
OutputHandlers ==
    {"buildProject", "buildTarget", "uploadFirmware", "uploadAndMonitor",
     "uploadFilesystem"}

\* C5: when the process exits with code 0, buildProject, buildTarget,
\* uploadFirmware, uploadAndMonitor and uploadFilesystem return success =
\* true and an output equal to the stdout the executor captured.
C5_ExitZeroReportsStdout ==
    \A c \in CallIds :
        ( /\ call[c].handler \in OutputHandlers
          /\ pc[c] = "done"
          /\ settled[c].type = "outcome"
          /\ settled[c].exitCode = 0 )
        => /\ ret[c].kind = "return"
           /\ ret[c].value.success = TRUE
           /\ ret[c].value.output = settled[c].stdout

C5_Witness ==
    \E c \in CallIds :
        /\ call[c].handler = "buildProject"
        /\ pc[c] = "done"
        /\ settled[c].type = "outcome"
        /\ settled[c].exitCode = 0
        /\ Len(settled[c].stdout) > 1
        /\ settled[c].stderr # <<>>
        /\ ret[c].kind = "return"

\* C6: a handler invocation calls platformioExecutor.execute at most once,
\* exactly once when none of its validations rejects, and makes no further
\* call after a thrown failure, a timeout or a non-zero exit.
C6_ExecuteAtMostOnce ==
    \A c \in CallIds :
        /\ Len(execLog[c]) <= 1
        /\ (call[c].handler \in Handlers /\ pc[c] # "idle")
             => (Len(execLog[c]) = 1 <=> ~Rejected(c))

C6_Witness ==
    \E c \in CallIds :
        /\ call[c].handler = "cleanProject"
        /\ FailedWith(c, TimedOut)
        /\ ret[c].kind = "throw"
        /\ Len(execLog[c]) = 1

\* C7: when the executor fails to spawn the executable, the failure that
\* leaves the handler is of kind ToolNotInstalled.
C7_SpawnFailureStaysToolNotInstalled ==
    \A c \in CallIds :
        FailedWith(c, SpawnFailed) =>
            (ret[c].kind = "throw" /\ ErrorKind(ret[c].error) = "ToolNotInstalled")

\* C8: when the executor reports that the deadline elapsed, the failure
\* that leaves the handler is of kind Timeout.
C8_TimeoutStaysTimeout ==
    \A c \in CallIds :
        FailedWith(c, TimedOut) =>
            (ret[c].kind = "throw" /\ ErrorKind(ret[c].error) = "Timeout")

\* C9: a handler that rejects an environment name fails with
\* InvalidIdentifier, and one that rejects a serial port with InvalidPort.
C9_RejectionKindOfField ==
    \A c \in CallIds :
        \A i \in 1..Len(checks[c]) :
            ~checks[c][i].accepted =>
                /\ ret[c].kind = "throw"
                /\ checks[c][i].field = "environment"
                     => ErrorKind(ret[c].error) = "InvalidIdentifier"
                /\ checks[c][i].field = "port"
                     => ErrorKind(ret[c].error) = "InvalidPort"

\* The error's context holds value v under key f.
ContextNames(error, f, v) ==
    f \in DOMAIN error.context /\ error.context[f] = v

\* C10: an executor failure leaves the handler wrapped in an error whose
\* context names the project directory and every environment and port given
\* to the call.
C10_FailureWrappedWithContext ==
    \A c \in CallIds :
        ( /\ call[c].handler \in Handlers
          /\ pc[c] = "done"
          /\ settled[c].type = "failure" )
        => /\ ret[c].kind = "throw"
           /\ ContextNames(ret[c].error, "projectDir", call[c].p.projectDir)
           /\ \A f \in {"environment", "port"} :
                Truthy(call[c].p[f])
                    => ContextNames(ret[c].error, f, call[c].p[f])

\* C11: every executor call of a handler runs in the directory
\* validateProjectPath returned for that call's projectDir, which the
\* validator accepted: never the raw projectDir, never another directory.
C11_CwdIsValidatedPath ==
    \A c \in CallIds :
        \A i \in 1..Len(execLog[c]) :
            /\ validateProjectPath(call[c].p.projectDir).ok
            /\ execLog[c][i].cwd = validateProjectPath(call[c].p.projectDir).path

\* A call has run the executor in a directory that is not the raw projectDir.
C11_Witness ==
    \E c \in CallIds :
        /\ pc[c] = "done"
        /\ execLog[c] # <<>>
        /\ call[c].p.projectDir = <<"proj", ".", "src", "..">>
        /\ execLog[c][1].cwd = <<"proj">>

UploadHandlers ==
    {"uploadFirmware", "uploadAndMonitor", "uploadFilesystem", "buildAndUpload"}

\* C12: the timeout a handler passes to the executor is the one of its
\* class: 600000 ms for buildProject and buildTarget, 300000 ms for the upload
\* handlers, 30000 ms for listTargets; no handler passes another timeout.
C12_TimeoutByClass ==
    \A c \in CallIds :
        \A i \in 1..Len(execLog[c]) :
            LET timeout == execLog[c][i].timeout
                h == call[c].handler
            IN /\ h \in {"buildProject", "buildTarget"} => timeout = 600000
               /\ h \in UploadHandlers => timeout = 300000
               /\ h = "listTargets" => timeout = 30000
               /\ timeout \in {600000, 300000, 30000}

\* C13: buildAndUpload issues no build command of its own: a call that
\* passes validation makes a single executor call, the run command with the
\* composite target upload, and both that call and the call's result or
\* error are those of uploadFirmware with the same arguments.
C13_BuildAndUploadIsUpload ==
    \A c \in CallIds :
        call[c].handler = "buildAndUpload" =>
            LET p == call[c].p
                b == uploadFirmwareBegin(p.projectDir, p.port, p.environment)
            IN /\ execLog[c] = IF b.kind = "execute" THEN <<b.spec>> ELSE <<>>
               /\ \A i \in 1..Len(execLog[c]) :
                     /\ execLog[c][i].command = <<"run">>
                     /\ SubSeq(execLog[c][i].args, 1, 2) = <<<<"--target">>, <<"upload">>>>
               /\ pc[c] = "done" =>
                     ret[c] = IF b.kind = "execute"
                              THEN uploadFirmwareEnd(p.projectDir, p.port,
                                                     p.environment, settled[c])
                              ELSE Throws(b.error)

\* A buildAndUpload call has returned the result of its one upload command.
C13_Witness ==
    \E c \in CallIds :
        /\ call[c].handler = "buildAndUpload"
        /\ pc[c] = "done"
        /\ Len(execLog[c]) = 1
        /\ settled[c].type = "outcome"
        /\ ret[c].kind = "return"
        /\ Truthy(call[c].p.port)

\* C14: the schema layer keeps absent, wrong-type and empty required
\* fields from the handlers: whenever the dispatcher invokes the handler of a
\* tool, every required string field of the tool's schema is a non-empty
\* string in the request's arguments.
C14_NoEmptyRequiredString ==
    \A c \in CallIds :
        (call[c].via = "tool" /\ call[c].handler # "none") =>
            \A f \in ToolSchema(call[c].tool) :
                (~f.optional /\ f.type = "string") =>
                    LET v == call[c].args.fields[f.name]
                    IN v.t = "string" /\ v.v # <<>>

\* The handlers that take an environment.
EnvironmentHandlers == Handlers \ {"cleanProject"}

\* The name that differs from environment in the case of its letters only.
SwapCase(environment) ==
    [i \in 1..Len(environment) |->
        CASE environment[i] = "e" -> "E"
          [] environment[i] = "E" -> "e"
          [] OTHER -> environment[i]]

\* args holds --environment once, followed by environment.
PassesEnvironment(args, environment) ==
    /\ Cardinality({k \in 1..Len(args) : args[k] = <<"--environment">>}) = 1
    /\ \E k \in 1..(Len(args) - 1) :
          args[k] = <<"--environment">> /\ args[k + 1] = environment

\* C17: handlers never change the case of the environment: the string
\* passed after --environment and the environment field of the result are
\* exactly the caller's string, and the same call with the environment in
\* the other letter case has another argument vector and another result
\* environment.
C17_EnvironmentCaseKept ==
    \A c \in CallIds :
        ( /\ call[c].handler \in EnvironmentHandlers
          /\ Truthy(call[c].p.environment)
          /\ execLog[c] # <<>> )
        => LET h == call[c].handler
               p == call[c].p
               q == [p EXCEPT !.environment = SwapCase(p.environment)]
               returned == /\ pc[c] = "done"
                           /\ ret[c].kind = "return"
                           /\ h \in {"buildProject", "buildTarget"}
           IN /\ \A i \in 1..Len(execLog[c]) :
                    PassesEnvironment(execLog[c][i].args, p.environment)
              /\ returned => ret[c].value.environment = p.environment
              /\ q.environment # p.environment =>
                    /\ HandlerBegin(h, q).kind = "execute"
                    /\ HandlerBegin(h, q).spec.args # execLog[c][1].args
                    /\ returned =>
                          HandlerEnd(h, q, settled[c]).value.environment
                              # ret[c].value.environment

\* buildProject has returned the result of an environment with a capital.
C17_Witness ==
    \E c \in CallIds :
        /\ call[c].handler = "buildProject"
        /\ call[c].p.environment = <<"E", "e">>
        /\ pc[c] = "done"
        /\ ret[c].kind = "return"
        /\ ret[c].value.environment = <<"E", "e">>
        /\ execLog[c][1].args = <<<<"--environment">>, <<"E", "e">>>>

\* C20: in every result buildProject, buildTarget, uploadFirmware,
\* uploadAndMonitor and uploadFilesystem return, success is true exactly
\* when the exit code is 0, and errors is absent exactly when success is
\* true; on a non-zero exit it is the list parsed from stderr.
C20_SuccessAndErrorsFollowExitCode ==
    \A c \in CallIds :
        ( /\ call[c].handler \in OutputHandlers
          /\ pc[c] = "done"
          /\ ret[c].kind = "return" )
        => /\ settled[c].type = "outcome"
           /\ ret[c].value.success = (settled[c].exitCode = 0)
           /\ (ret[c].value.errors = undefinedList) <=> ret[c].value.success
           /\ ~ret[c].value.success =>
                 ret[c].value.errors = parseStderrErrors(settled[c].stderr)

\* An upload has returned success = false with the errors of stderr, and
\* nothing kept it from returning success = true without errors.
C20_Witness ==
    \E c \in CallIds :
        /\ call[c].handler = "uploadAndMonitor"
        /\ pc[c] = "done"
        /\ ret[c].kind = "return"
        /\ settled[c].exitCode # 0
        /\ ~ret[c].value.success
        /\ ret[c].value.errors # <<>>
        /\ ret[c].value.errors # undefinedList

\* C19: the server exposes 11 tools: the names the ListTools handler
\* returns are exactly the 11 documented names.
C19_ListToolsIsDocumentedTools ==
    \A c \in CallIds :
        response[c].kind = "tools" =>
            /\ Len(response[c].tools) = 11
            /\ {response[c].tools[i] : i \in 1..Len(response[c].tools)}
                  = DocumentedTools

\* The call's handler has ended: it returned a payload or threw an error.
HasResult(c) == ret[c].kind \in {"return", "throw"}

\* What a call has once obtained, it keeps: its executor result, its handler
\* result and its response are set once.
SetOnce(c) ==
    /\ settled[c] # NotSettled => settled'[c] = settled[c]
    /\ ret[c] # NoRet => ret'[c] = ret[c]
    /\ response[c] # NoResponse => response'[c] = response[c]

\* C16: every executor outcome or failure a handler obtains is
\* interpreted exactly once and gives one handler result, a returned payload
\* or a thrown error, which is the interpretation of that outcome; a started
\* tool call gets exactly one response once its command has ended; nothing a
\* call has obtained is dropped or replaced.
C16_OneResultPerOutcome ==
    /\ [](\A c \in CallIds :
            /\ settled[c] # NotSettled =>
                  /\ pc[c] = "done"
                  /\ HasResult(c)
                  /\ ret[c] = HandlerEnd(call[c].handler, call[c].p, settled[c])
            /\ (pc[c] = "done" /\ call[c].via # "list") => HasResult(c)
            /\ (pc[c] = "done" /\ call[c].via = "tool") =>
                  response[c] = CallToolResponse(ret[c]))
    /\ [][\A c \in CallIds : SetOnce(c)]_vars
    /\ \A c \in CallIds :
          /\ (pc[c] = "awaiting") ~> (pc[c] = "done" /\ HasResult(c))
          /\ (pc[c] = "awaiting" /\ call[c].via = "tool")
                ~> (response[c].kind = "result")

\* A tool call whose command failed has been answered with the error.
C16_Witness ==
    \E c \in CallIds :
        /\ call[c].via = "tool"
        /\ pc[c] = "done"
        /\ settled[c].type = "failure"
        /\ ret[c].kind = "throw"
        /\ response[c].kind = "result"
        /\ response[c].isError

\* C18: startup reaches the running state whatever the install check
\* reports: when PlatformIO is not installed main writes the warning and
\* still connects the transport.
C18_StartupReachesRunning ==
    /\ <>(server = "running")
    /\ (server = "connecting" /\ console = InstallWarning)
          ~> (server = "running" /\ SubSeq(console, 1, 2) = InstallWarning)

\* The server runs after it warned that PlatformIO is not installed.
C18_Witness ==
    /\ server = "running"
    /\ console = InstallWarning \o RunningBanner

\* What the call in slot c is owed by its own parameters and its own
\* executor result alone.
OwnExecLog(c) ==
    LET b == HandlerBegin(call[c].handler, call[c].p)
    IN IF b.kind = "execute" THEN <<b.spec>> ELSE <<>>

OwnResult(c) ==
    LET b == HandlerBegin(call[c].handler, call[c].p)
    IN IF b.kind = "throw" THEN Throws(b.error)
       ELSE HandlerEnd(call[c].handler, call[c].p, settled[c])

\* C15: with several calls in flight, under every interleaving of their
\* starts and of the ends of their commands, each call's executor call is
\* the one of its own parameters, and its result and response are those of
\* its own parameters and its own command's outcome: nothing of another
\* call appears in them.
C15_CallsAreIndependent ==
    \A c \in DOMAIN pc :
        /\ (pc[c] # "idle" /\ call[c].handler \in Handlers) =>
              /\ execLog[c] = OwnExecLog(c)
              /\ pc[c] = "done" => ret[c] = OwnResult(c)
        /\ (pc[c] = "done" /\ call[c].via = "tool") =>
              response[c] = CallToolResponse(ret[c])
        /\ pc[c] = "idle" => (execLog[c] = <<>> /\ ret[c] = NoRet)

\* Two uploads on different ports, whose commands ended differently, have
\* both returned.
C15_Witness ==
    /\ DOMAIN pc = ConcCallIds
    /\ \A c \in ConcCallIds :
          /\ call[c].handler = "uploadFirmware"
          /\ pc[c] = "done"
          /\ ret[c].kind = "return"
    /\ call[1].p.port # call[2].p.port
    /\ call[1].p.projectDir # call[2].p.projectDir
    /\ settled[1].exitCode = 1
    /\ settled[2].exitCode = 0
    /\ ret[1].value.port = call[1].p.port
    /\ ret[2].value.output = <<"ok">>

\* C21: uploadFirmware and uploadFilesystem call the executor with the
\* subcommand run and the argument vector --target T (T = upload or
\* uploadfs), then --environment env when an environment is given, then
\* --upload-port port when a port is given, in that order; run is not an
\* element of the argument vector.
C21_UploadArgumentVector ==
    \A c \in CallIds :
        call[c].handler \in {"uploadFirmware", "uploadFilesystem"} =>
            \A i \in 1..Len(execLog[c]) :
                LET e == execLog[c][i]
                    p == call[c].p
                    T == IF call[c].handler = "uploadFirmware"
                         THEN <<"upload">> ELSE <<"uploadfs">>
                IN /\ e.command = <<"run">>
                   /\ e.args = <<<<"--target">>, T>>
                         \o (IF Truthy(p.environment)
                             THEN <<<<"--environment">>, p.environment>> ELSE <<>>)
                         \o (IF Truthy(p.port)
                             THEN <<<<"--upload-port">>, p.port>> ELSE <<>>)
                   /\ \A k \in 1..Len(e.args) : e.args[k] # <<"run">>

\* uploadFilesystem has called the executor with an environment and a port.
C21_Witness ==
    \E c \in CallIds :
        /\ call[c].handler = "uploadFilesystem"
        /\ Len(execLog[c]) = 1
        /\ execLog[c][1].args =
              <<<<"--target">>, <<"uploadfs">>, <<"--environment">>, <<"E">>,
                <<"--upload-port">>, <<"COM", "3">>>>

C23_EmptyEnvironmentIsDefault ==
    \A c \in CallIds :
        call[c].handler \in {"buildProject", "buildTarget"} =>
            LET environment == call[c].p.environment
                returned == pc[c] = "done" /\ ret[c].kind = "return"
            IN IF environment \in {undefined, <<>>}
               THEN /\ \A i \in 1..Len(checks[c]) : checks[c][i].field # "environment"
                    /\ \A i \in 1..Len(execLog[c]) :
                          \A k \in 1..Len(execLog[c][i].args) :
                              execLog[c][i].args[k] # <<"--environment">>
                    /\ returned => ret[c].value.environment = <<"default">>
               ELSE /\ \A i \in 1..Len(execLog[c]) :
                          PassesEnvironment(execLog[c][i].args, environment)
                    /\ returned => ret[c].value.environment = environment

\* buildTarget, called with the empty string as environment, has returned.
C23_Witness ==
    \E c \in CallIds :
        /\ call[c].handler = "buildTarget"
        /\ call[c].p.environment = <<>>
        /\ pc[c] = "done"
        /\ ret[c].kind = "return"
        /\ ret[c].value.environment = <<"default">>
        /\ Len(execLog[c]) = 1
        /\ execLog[c][1].args = <<<<"--target">>, <<"upload">>>>

\* The place of a field in the order of validation.
ValidationRank(field) ==
    CASE field = "projectDir" -> 1
      [] field = "environment" -> 2
      [] field = "port" -> 3

\* The value of field f of the call in slot c is given and invalid.
InvalidField(c, f) ==
    LET v == call[c].p[f]
    IN CASE f = "projectDir" -> ~validateProjectPath(v).ok
         [] f = "environment" -> Truthy(v) /\ ~validateEnvironmentName(v)
         [] f = "port" -> Truthy(v) /\ ~validateSerialPort(v)

\* The error a rejection of field f of the call in slot c is reported with.
RejectionOf(c, f) ==
    LET v == call[c].p[f]
    IN CASE f = "projectDir" -> validateProjectPath(v).error
         [] f = "environment" ->
              UploadError(<<"Invalid environment name: ">> \o v, [environment |-> v])
         [] f = "port" -> UploadError(<<"Invalid serial port: ">> \o v, [port |-> v])

\* C24: uploadFirmware, uploadAndMonitor and uploadFilesystem validate
\* the project path, then the environment, then the port, and stop at the
\* first rejection: when several fields are invalid the call fails with the
\* error of the earliest invalid field in that order.
C24_ValidationOrder ==
    \A c \in CallIds :
        ( /\ call[c].handler \in {"uploadFirmware", "uploadAndMonitor", "uploadFilesystem"}
          /\ pc[c] # "idle" )
        => /\ \A i, j \in 1..Len(checks[c]) :
                 i < j => /\ ValidationRank(checks[c][i].field)
                               < ValidationRank(checks[c][j].field)
                          /\ checks[c][i].accepted
           /\ \A f \in {"projectDir", "environment", "port"} :
                 ( /\ InvalidField(c, f)
                   /\ \A g \in {"projectDir", "environment", "port"} :
                         ValidationRank(g) < ValidationRank(f) => ~InvalidField(c, g) )
                 => /\ pc[c] = "done"
                    /\ execLog[c] = <<>>
                    /\ ret[c] = Throws(RejectionOf(c, f))
                    /\ checks[c][Len(checks[c])].field = f

\* uploadAndMonitor, called with an invalid environment and an invalid port,
\* has failed with the error of the environment.
C24_Witness ==
    \E c \in CallIds :
        /\ call[c].handler = "uploadAndMonitor"
        /\ call[c].p.projectDir = <<"proj">>
        /\ call[c].p.environment = <<";">>
        /\ call[c].p.port = <<"/dev/tty", "USB0", ";">>
        /\ pc[c] = "done"
        /\ ret[c].kind = "throw"
        /\ ret[c].error.context = [environment |-> <<";">>]

\* The indices of the lines of stdout that name a target: lines that,
\* trimmed, are non-empty, do not start with Environment and hold no colon.
TargetLineIndices(stdout) ==
    {i \in 1..Len(Split(stdout)) : IsTargetLine(Trim(Split(stdout)[i]))}

\* C25: on exit code 0 listTargets returns, in source order, exactly the
\* trimmed lines of stdout that are non-empty, do not start with Environment
\* and hold no colon; on another exit code it throws a BuildError and
\* returns no list.
C25_ListTargetsParsesStdout ==
    \A c \in CallIds :
        ( /\ call[c].handler = "listTargets"
          /\ pc[c] = "done"
          /\ settled[c].type = "outcome" )
        => IF settled[c].exitCode = 0
           THEN LET lines == Split(settled[c].stdout)
                    kept == TargetLineIndices(settled[c].stdout)
                    targets == ret[c].value
                IN /\ ret[c].kind = "return"
                   /\ Len(targets) = Cardinality(kept)
                   /\ \A j \in 1..Len(targets) :
                         \E i \in kept :
                             /\ Cardinality({k \in kept : k <= i}) = j
                             /\ targets[j] = Trim(lines[i])
           ELSE /\ ret[c].kind = "throw"
                /\ InstanceOfBuildError(ret[c].error)

\* listTargets has returned the two targets of an output of five lines.
C25_Witness ==
    \E c \in CallIds :
        /\ call[c].handler = "listTargets"
        /\ pc[c] = "done"
        /\ ret[c].kind = "return"
        /\ Len(Split(settled[c].stdout)) = 5
        /\ ret[c].value = <<<<"upload">>, <<"clean">>>>

\* C26: a tool call whose name is not a case of the dispatcher invokes no
\* handler and no external process, and is answered with an error result
\* (isError true) that names the unknown tool.
C26_UnknownToolIsErrorResult ==
    \A c \in CallIds :
        (call[c].via = "tool" /\ call[c].tool \notin DispatcherCases) =>
            /\ pc[c] = "done"
            /\ call[c].handler = "none"
            /\ checks[c] = <<>>
            /\ execLog[c] = <<>>
            /\ settled[c] = NotSettled
            /\ response[c].kind = "result"
            /\ response[c].isError
            /\ response[c].content =
                  <<[type |-> "text",
                     text |-> <<"Error: ", "Unknown tool: ", call[c].tool>>]>>

\* A call of a tool the dispatcher has no case for has been answered.
C26_Witness ==
    \E c \in CallIds :
        /\ call[c].via = "tool"
        /\ call[c].tool = "no_such_tool"
        /\ pc[c] = "done"
        /\ response[c].isError

\* The dispatcher has no case for name: the call falls to the default branch.
FallsToDefault(name, args) ==
    /\ CallToolDispatch(name, args).kind = "throw"
    /\ CallToolDispatch(name, args).error.name = "Error"

\* C27: the tool catalog and the dispatcher agree: every name the
\* ListTools handler returns has a case in the dispatcher, and every case of
\* the dispatcher is for a name ListTools returns.
C27_CatalogMatchesDispatcher ==
    \A c \in CallIds :
        response[c].kind = "tools" =>
            LET tools == response[c].tools
                listed == {tools[i] : i \in 1..Len(tools)}
            IN /\ listed = DispatcherCases
               /\ \A name \in listed :
                     \A args \in ToolArguments(name) : ~FallsToDefault(name, args)
               /\ \A name \in ToolNames \ listed :
                     \A args \in ToolArguments(name) : FallsToDefault(name, args)

\* A ListTools request has been answered with the catalog.
C27_Witness ==
    \E c \in CallIds :
        /\ call[c].via = "list"
        /\ pc[c] = "done"
        /\ response[c] = ListToolsResponse
        /\ Len(response[c].tools) = 12

====
